---- MODULE Spec2Model ----
(***************************************************************************)
(* tab-visualizer (src/main.rs): the capture callback pushes samples into  *)
(* a bounded single-producer/single-consumer ring; every frame `update`    *)
(* runs the settings ui, drains the ring into 1024-sample windows, runs    *)
(* the pitch detector on each full window, appends a point to the trail    *)
(* and moves the camera.                                                   *)
(*                                                                         *)
(* Units.  f32 coordinates are carried as integers: y and z in tenths      *)
(* (y -= 0.1 is y - 1, z += 0.3 is z + 3), x in 1/XUnit.  A sample is a    *)
(* record [nan, v]: a NaN, or the finite amplitude v.  A detected pitch is *)
(* carried in the log domain, as twice its fractional MIDI number.         *)
(* Rounding error of f32 arithmetic is not modelled, but for absorption:   *)
(* a step added to a coordinate that has grown too large for it leaves the *)
(* coordinate as it is (HeightStep, DepthStep).                            *)
(*                                                                         *)
(* External code is modelled at its boundary: the ring buffer as a bounded *)
(* FIFO whose push fails when full and whose pop fails when empty, and     *)
(* McLeodDetector::get_pitch as a free choice between None and a pitch.    *)
(* A panic sets `crashed` and nothing happens after it.  The threshold     *)
(* sliders, the colours and the F1 toggle of the settings window are left  *)
(* out: they write none of the state modelled here.  The tuning box, which *)
(* swaps tuning_notes for another external table, is left out as well.     *)
(***************************************************************************)
EXTENDS Integers, Sequences, FiniteSets, TLC

(***************************************************************************)
(* Sizes.  The program's sizes are 4096 (LINE_LENGTH, main.rs:11), 1024    *)
(* (SIZE, main.rs:131,140) and 8192 (latency_samples, main.rs:72); the     *)
(* model keeps their roles and scales the numbers down.                    *)
(***************************************************************************)
LINE_LENGTH == 2
SIZE == 2
latency_samples == 2
\* samples the capture callback delivers in one run
MaxPush == 7
\* longest symbol table handed to midi_to_tab
MaxTable == 3
\* f32 absorption: `y -= 0.1` leaves y as it is once |y| has reached 2^21,
\* `z += 0.3` leaves z as it is once z has reached 2^23, where the step is
\* less than half the spacing of f32 values; scaled down, in tenths
YAbsorb == 6
ZAbsorb == 24

C4_MIDI == 60
C7_MIDI == 96
DefaultLow == 48
DefaultHigh == 103
\* the 10.0 of to_screen_position (main.rs:302), in tenths
DepthOffset == 100

RelayCapacity == latency_samples * 2

\* x is carried in units of 1/XUnit: both widths midi_bounds can have divide it
XUnit == (C7_MIDI - C4_MIDI) * (DefaultHigh - DefaultLow)

F32(a) == [nan |-> FALSE, v |-> a]
NaN == [nan |-> TRUE, v |-> 0]
\* what the capture device delivers: a signal or a non-finite value (silence
\* is what the relay is pre-filled with)
Samples == {F32(-1), NaN}

Vec3(a, b, c) == [x |-> a, y |-> b, z |-> c]
ZERO == Vec3(0, 0, 0)

VARIABLES
    locations,            \* Model.locations: the trail, oldest first
    locations_capacity,   \* locations.capacity()
    camera_pos,           \* Model.camera_pos
    relay,                \* the ring buffer shared by producer and consumer
    current_note,         \* Model.current_note
    current_level,        \* Model.current_level
    is_running,           \* Model.is_running
    key,                  \* settings.key
    should_calc_bounds_from_key,
    midi_bounds,          \* Model.midi_bounds
    tuning_notes,         \* Model.tuning_notes
    pc,                   \* where `update` is: "idle" (between frames), "loop", "pop"
    new_pos,              \* update's local new_pos
    buf,                  \* update's local buf, the working window
    ui_event,             \* what the settings window reported in this frame
    crashed,              \* the process was aborted by a panic
    pushed,               \* history: samples the capture callback has offered so far
    appended,             \* history: the points pushed onto the trail since the last clear
    drained,              \* history: the samples popped in this tick, in order
    windows,              \* history: the windows handed to the extractor in this tick
    prev_newest,          \* history: <<the trail's newest point>> when the previous
                          \* tick ended, <<>> if the trail was empty
    bookkept,             \* history: windows whose body ran since the start or the
                          \* last reset
    call,                 \* arguments and outcome of a direct call of the note mapper
    recording             \* the history variables are kept (a run of bounded length)

vars == <<locations, locations_capacity, camera_pos, relay, current_note,
          current_level, is_running, key, should_calc_bounds_from_key,
          midi_bounds, tuning_notes, pc, new_pos, buf, ui_event, crashed,
          pushed, appended, drained, windows, prev_newest, bookkept, call,
          recording>>

(***************************************************************************)
(* The note mapper.  A call that can panic returns a record: `panic` says  *)
(* whether the call aborted the process, `value` is what it returned.      *)
(***************************************************************************)
Ok(v) == [panic |-> FALSE, value |-> v]
Panicked(v) == [panic |-> TRUE, value |-> v]

\* the keys the settings window offers (main.rs:202-205)
keys == <<"C", "G", "D", "A", "E", "B", "F#", "Db", "Ab", "Eb", "Bb", "F",
          "LF", "LC", "LD", "HG">>

KeyNames == {keys[i] : i \in DOMAIN keys}

\* the arms of the match in get_harmonica_key_semitone_offset
KeyOffsets ==
    ("C" :> 0) @@ ("G" :> -5) @@ ("D" :> 2) @@ ("A" :> -3) @@ ("E" :> 4) @@
    ("B" :> -1) @@ ("F#" :> 6) @@ ("Db" :> 1) @@ ("Ab" :> -4) @@ ("Eb" :> 3) @@
    ("Bb" :> -2) @@ ("F" :> 5) @@ ("LF" :> -7) @@ ("LC" :> -12) @@
    ("LD" :> -10) @@ ("HG" :> 7)

\* mutant: the match has no arm for "HG"
get_harmonica_key_semitone_offset_no_HG(k) ==
    IF k \in DOMAIN KeyOffsets \ {"HG"} THEN Ok(KeyOffsets[k]) ELSE Panicked(0)

get_harmonica_key_semitone_offset(k) ==
    IF k \in DOMAIN KeyOffsets THEN Ok(KeyOffsets[k]) ELSE Panicked(0)

\* notes_in_order[index as usize]: the slice index is bounds-checked
IndexSlice(notes, index) ==
    IF index + 1 \in DOMAIN notes THEN Ok(notes[index + 1]) ELSE Panicked("")

\* mutant: the upper bound of the index is off by one
midi_to_tab_off_by_one(midi, k, notes_in_order) ==
    LET offset == get_harmonica_key_semitone_offset(k) IN
    IF offset.panic THEN Panicked("")
    ELSE LET index == midi - 60 - offset.value IN
         IF index < 0 \/ index > Len(notes_in_order)
         THEN Ok("")
         ELSE IndexSlice(notes_in_order, index)

midi_to_tab(midi, k, notes_in_order) ==
    LET offset == get_harmonica_key_semitone_offset(k) IN
    IF offset.panic THEN Panicked("")
    ELSE LET index == midi - 60 - offset.value IN
         IF index < 0 \/ index > Len(notes_in_order) - 1
         THEN Ok("")
         ELSE IndexSlice(notes_in_order, index)

\* i8 addition as a release build does it (wrapping); a debug build panics instead
I8Overflows(a, b) == a + b > 127 \/ a + b < -128
I8Add(a, b) == ((a + b + 128) % 256) - 128
\* `as u8` of an i8
AsU8(a) == (a + 256) % 256

MidiBounds(lo, hi) == [low |-> lo, high |-> hi]
MidiBoundsDefault == MidiBounds(DefaultLow, DefaultHigh)

\* mutant: the bounds of the key of C, whatever the key
calc_freq_bounds_no_offset(k) == Ok(MidiBounds(C4_MIDI, C7_MIDI))

calc_freq_bounds(k) ==
    LET offset == get_harmonica_key_semitone_offset(k) IN
    IF offset.panic THEN Panicked(MidiBoundsDefault)
    ELSE Ok(MidiBounds(AsU8(I8Add(C4_MIDI, offset.value)),
                       AsU8(I8Add(C7_MIDI, offset.value))))

\* freq_to_midi of a pitch given as twice its fractional MIDI number: round
\* half away from zero, then the saturating `as u8`
freq_to_midi(semis2) ==
    LET r == IF semis2 >= 0 THEN (semis2 + 1) \div 2 ELSE -((1 - semis2) \div 2) IN
    IF r < 0 THEN 0 ELSE IF r > 255 THEN 255 ELSE r

\* line_bounds (main.rs:102)
line_bounds == <<-8, 8>>

\* map_range(freq_to_midi_float(f), low, high, line_bounds[0], line_bounds[1]),
\* in units of 1/XUnit.  The division is exact for the widths 36 and 55.
map_range_x(semis2, bounds) ==
    ((semis2 - 2 * bounds.low) * (line_bounds[2] - line_bounds[1]) * XUnit)
        \div (2 * (bounds.high - bounds.low))
    + line_bounds[1] * XUnit

\* leading entries of harptabber's richter table (an external table)
RichterNotes == <<"1", "-1'", "-1", "1o", "2", "-2''", "-2'", "-2">>

Abs(a) == IF a < 0 THEN -a ELSE a
SetMax(S) == CHOOSE m \in S : \A n \in S : n <= m

\* buf.iter().filter_map(|x| NotNan::new(x.abs()).ok()).max().unwrap()
Level(w) ==
    LET vals == {Abs(w[i].v) : i \in {j \in DOMAIN w : ~w[j].nan}} IN
    IF vals = {} THEN Panicked(0) ELSE Ok(SetMax(vals))

(***************************************************************************)
(* The trail buffer: a Vec<Vec3> created with capacity LINE_LENGTH.        *)
(***************************************************************************)
\* rotate_left(1) followed by pop()
RotateLeft1(s) == IF s = <<>> THEN s ELSE Tail(s) \o <<Head(s)>>
PopLast(s) == IF s = <<>> THEN s ELSE SubSeq(s, 1, Len(s) - 1)

\* mutant: nothing is evicted
EvictNothing(locs, cap) == locs

\* mutant: pop() without the rotation drops the newest point
EvictNewest(locs, cap) == IF Len(locs) = cap THEN PopLast(locs) ELSE locs

\* main.rs:167-170
Evict(locs, cap) ==
    IF Len(locs) = cap THEN PopLast(RotateLeft1(locs)) ELSE locs

\* Vec::push: a full vector reallocates to twice its capacity
CapacityAfterPush(locs, cap) == IF Len(locs) = cap THEN 2 * cap ELSE cap

\* mutant: the camera follows the point in x as well
CameraFollowAll(cam, pos) == pos

\* mutant: the camera follows the point in depth only
CameraFollowDepthOnly(cam, pos) == Vec3(cam.x, cam.y, pos.z)

\* main.rs:179-181
CameraFollow(cam, pos) ==
    LET delta == Vec3(pos.x - cam.x, pos.y - cam.y, pos.z - cam.z)
        direction == [delta EXCEPT !.x = 0]
    IN  Vec3(cam.x + direction.x, cam.y + direction.y, cam.z + direction.z)

\* mutant: the depth offset is left out
to_screen_position_no_offset(point) == [z |-> point.z, divisor |-> -point.z]

\* to_screen_position (main.rs:301-307): its local z, in tenths, and the
\* divisor 0.01 * -z of both coordinates, in thousandths
to_screen_position(point) ==
    LET z == point.z - DepthOffset IN [z |-> z, divisor |-> -z]

\* from_camera_view (main.rs:309-312)
from_camera_view(point, cam) ==
    to_screen_position(Vec3(point.x - cam.x, point.y - cam.y, point.z - cam.z))

\* `new_pos.y -= 0.1` (main.rs:164) and `new_pos.z += 0.3` (main.rs:165)
HeightStep(y) == IF -y >= YAbsorb THEN y ELSE y - 1
DepthStep(z) == IF z >= ZAbsorb THEN z ELSE z + 3

\* what detector.get_pitch can return: None, or a pitch (twice its MIDI number)
Pitches == {120, 143}
NoPitch == [some |-> FALSE, semis2 |-> 0]
SomePitch(p) == [some |-> TRUE, semis2 |-> p]
PitchResults == {NoPitch} \cup {SomePitch(p) : p \in Pitches}

(***************************************************************************)
(* What the settings window can report in one frame (ui, main.rs:184-278). *)
(***************************************************************************)
UiNone == [type |-> "none", key |-> ""]
UiReset == [type |-> "reset", key |-> ""]
UiCheckbox == [type |-> "checkbox", key |-> ""]
UiKey(k) == [type |-> "key", key |-> k]

NoCall == [fn |-> "none", midi |-> 0, key |-> "", notes |-> <<>>, done |-> FALSE]

\* a history variable h takes the entry x
Record(h, x) == IF recording THEN Append(h, x) ELSE h

\* the state `model` returns (main.rs:55-114)
Init ==
    /\ locations = <<>>
    /\ locations_capacity = LINE_LENGTH
    /\ camera_pos = ZERO
    /\ relay = [i \in 1..latency_samples |-> F32(0)]
    /\ current_note = "4"
    /\ current_level = 0
    /\ is_running = FALSE
    /\ key = "C"
    /\ should_calc_bounds_from_key = TRUE
    /\ midi_bounds = calc_freq_bounds("C").value
    /\ tuning_notes = RichterNotes
    /\ pc = "idle"
    /\ new_pos = ZERO
    /\ buf = <<>>
    /\ ui_event = UiNone
    /\ crashed = FALSE
    /\ pushed = 0
    /\ appended = <<>>
    /\ drained = <<>>
    /\ windows = <<>>
    /\ prev_newest = <<>>
    /\ bookkept = 0
    /\ call = NoCall
    /\ recording = TRUE

\* mutant: a full ring overwrites its oldest sample
RingPushOverwrite(ring, sample) ==
    IF Len(ring) < RelayCapacity THEN Append(ring, sample)
    ELSE Append(Tail(ring), sample)

\* mutant: a push onto a full ring empties it
RingPushClearing(ring, sample) ==
    IF Len(ring) < RelayCapacity THEN Append(ring, sample) ELSE <<>>

\* producer.push(sample).ok(): a full ring returns the sample, which is dropped
RingPush(ring, sample) ==
    IF Len(ring) < RelayCapacity THEN Append(ring, sample) ELSE ring

\* pass_in (main.rs:352-356), one frame of the capture buffer per step
pass_in(sample) ==
    /\ ~crashed
    /\ recording => pushed < MaxPush
    /\ relay' = RingPush(relay, sample)
    /\ pushed' = IF recording THEN pushed + 1 ELSE pushed
    /\ UNCHANGED <<locations, locations_capacity, camera_pos, current_note,
                   current_level, is_running, key, should_calc_bounds_from_key,
                   midi_bounds, tuning_notes, pc, new_pos, buf, ui_event,
                   crashed, appended, drained, windows, prev_newest,
                   bookkept, call, recording>>

Last(s) == s[Len(s)]

\* mutant: the reset clears the trail and leaves is_running set
ui_reset_keeps_running(now) == [now EXCEPT !.locations = <<>>]

\* mutant: the reset ends Running and leaves the trail
ui_reset_keeps_trail(now) == [now EXCEPT !.is_running = FALSE]

\* the reset button (main.rs:270-273)
ui_reset(now) == [now EXCEPT !.locations = <<>>, !.is_running = FALSE]

\* ui (main.rs:184-278) on one event: the fields it leaves behind, and whether
\* calc_freq_bounds aborted
ui(e) ==
    LET now == [locations |-> locations, is_running |-> is_running, key |-> key,
                should_calc_bounds_from_key |-> should_calc_bounds_from_key,
                midi_bounds |-> midi_bounds, panic |-> FALSE]
    IN
    CASE e.type = "key" /\ e.key # key ->
            \* selectable_value(..).changed(), main.rs:210-214
            IF should_calc_bounds_from_key
            THEN LET b == calc_freq_bounds(e.key) IN
                 [now EXCEPT !.key = e.key, !.midi_bounds = b.value,
                             !.panic = b.panic]
            ELSE [now EXCEPT !.key = e.key]
      [] e.type = "checkbox" ->
            \* main.rs:256-268
            IF ~should_calc_bounds_from_key
            THEN LET b == calc_freq_bounds(key) IN
                 [now EXCEPT !.should_calc_bounds_from_key = TRUE,
                             !.midi_bounds = b.value, !.panic = b.panic]
            ELSE [now EXCEPT !.should_calc_bounds_from_key = FALSE,
                             !.midi_bounds = MidiBoundsDefault]
      [] e.type = "reset" -> ui_reset(now)
      [] OTHER -> now

\* mutant: every tick starts from the origin
NewPosInitZero(locs) == ZERO

\* `let mut new_pos = ..` (main.rs:120-124)
NewPosInit(locs) == IF locs # <<>> THEN Last(locs) ELSE ZERO

\* update up to the drain loop (main.rs:116-126)
UpdateBegin(e) ==
    /\ pc = "idle"
    /\ ~crashed
    /\ LET u == ui(e) IN
       /\ ui_event' = e
       /\ key' = u.key
       /\ should_calc_bounds_from_key' = u.should_calc_bounds_from_key
       /\ locations' = u.locations
       /\ is_running' = u.is_running
       /\ appended' = IF e.type = "reset" THEN <<>> ELSE appended
       /\ bookkept' = IF e.type = "reset" THEN 0 ELSE bookkept
       /\ prev_newest' = IF locations # <<>> THEN <<Last(locations)>> ELSE <<>>
       /\ IF u.panic
          THEN /\ crashed' = TRUE
               /\ UNCHANGED <<midi_bounds, pc, new_pos, buf, drained, windows>>
          ELSE /\ crashed' = FALSE
               /\ midi_bounds' = u.midi_bounds
               /\ new_pos' = NewPosInit(u.locations)
               /\ buf' = <<>>
               /\ drained' = <<>>
               /\ windows' = <<>>
               /\ pc' = "loop"
    /\ UNCHANGED <<locations_capacity, camera_pos, relay, current_note,
                   current_level, tuning_notes, pushed, call, recording>>

\* `while !model.consumer.is_empty()` (main.rs:127); on exit the camera
\* follows new_pos (main.rs:179-181) and update returns, dropping its locals
DrainTest ==
    /\ pc = "loop"
    /\ ~crashed
    /\ IF relay = <<>>
       THEN /\ camera_pos' = CameraFollow(camera_pos, new_pos)
            /\ pc' = "idle"
            /\ new_pos' = ZERO
            /\ buf' = <<>>
       ELSE /\ pc' = "pop"
            /\ UNCHANGED <<camera_pos, new_pos, buf>>
    /\ UNCHANGED <<locations, locations_capacity, relay, current_note,
                   current_level, is_running, key, should_calc_bounds_from_key,
                   midi_bounds, tuning_notes, ui_event, crashed, pushed,
                   appended, drained, windows, prev_newest, bookkept, call,
                   recording>>

\* mutant: an accepted pitch does not start the trail
RunningAfterStale(running, pitch) == running

\* `if let Some(pitch) = .. { model.is_running = true; .. }` (main.rs:145-151)
RunningAfter(running, pitch) == running \/ pitch.some

\* `if model.is_running { model.locations.push(new_pos) }` (main.rs:171-173)
TrailAfter(kept, running, pos) == IF running THEN Append(kept, pos) ELSE kept

\* mutant: the window is not cleared
BufAfterWindowKept(w) == w

\* buf.clear() (main.rs:175)
BufAfterWindow(w) == <<>>

\* the body of `if buf.len() == 1024` (main.rs:131-176) on the full window w,
\* with `pitch` what get_pitch returns for it
Window(w, pitch) ==
    LET level == Level(w)
        tab == midi_to_tab(freq_to_midi(pitch.semis2), key, tuning_notes)
        running == RunningAfter(is_running, pitch)
        moved == IF pitch.some
                 THEN [new_pos EXCEPT !.x = map_range_x(pitch.semis2, midi_bounds)]
                 ELSE new_pos
        pos == [moved EXCEPT !.y = HeightStep(@), !.z = DepthStep(@)]
        kept == Evict(locations, locations_capacity)
        trail == TrailAfter(kept, running, pos)
    IN
    IF level.panic \/ (pitch.some /\ tab.panic)
    THEN /\ crashed' = TRUE
         /\ buf' = w
         /\ windows' = Record(windows, [samples |-> w, outcome |-> "panic"])
         /\ current_level' = IF level.panic THEN current_level ELSE level.value
         /\ is_running' = IF level.panic THEN is_running ELSE running
         /\ UNCHANGED <<locations, locations_capacity, current_note, new_pos,
                        appended, bookkept, pc>>
    ELSE /\ crashed' = FALSE
         /\ current_level' = level.value
         /\ is_running' = running
         /\ current_note' = IF pitch.some THEN tab.value ELSE current_note
         /\ new_pos' = pos
         /\ locations' = trail
         /\ locations_capacity' =
                IF trail # kept
                THEN CapacityAfterPush(kept, locations_capacity)
                ELSE locations_capacity
         /\ appended' = IF trail # kept THEN Record(appended, pos) ELSE appended
         /\ windows' = Record(windows,
                [samples |-> w,
                 outcome |-> IF pitch.some THEN "accepted" ELSE "rejected"])
         /\ bookkept' = IF recording THEN bookkept + 1 ELSE bookkept
         /\ buf' = BufAfterWindow(w)
         /\ pc' = "loop"

\* consumer.pop().unwrap_or(0.0)
RingPop(ring) ==
    IF ring # <<>> THEN [sample |-> Head(ring), rest |-> Tail(ring)]
    ELSE [sample |-> F32(0), rest |-> ring]

\* one iteration of the drain loop (main.rs:128-176)
DrainPop(pitch) ==
    /\ pc = "pop"
    /\ ~crashed
    /\ LET popped == RingPop(relay)
           filled == Append(buf, popped.sample)
       IN
       /\ relay' = popped.rest
       /\ drained' = Record(drained, popped.sample)
       /\ IF Len(filled) = SIZE
          THEN Window(filled, pitch)
          ELSE /\ pitch = NoPitch
               /\ buf' = filled
               /\ pc' = "loop"
               /\ UNCHANGED <<locations, locations_capacity, current_note,
                              current_level, is_running, new_pos, crashed,
                              appended, windows, bookkept>>
    /\ UNCHANGED <<camera_pos, key, should_calc_bounds_from_key, midi_bounds,
                   tuning_notes, ui_event, pushed, prev_newest, call,
                   recording>>

\* the events of a frame in the pipeline's specification: the key and
\* checkbox events only move midi_bounds, which scales x
FrameEvents == {UiNone, UiReset}

Next ==
    \/ \E sample \in Samples : pass_in(sample)
    \/ \E e \in FrameEvents : UpdateBegin(e)
    \/ DrainTest
    \/ \E pitch \in PitchResults : DrainPop(pitch)

Spec == Init /\ [][Next]_vars

(***************************************************************************)
(* Properties of the pipeline, checked under Spec.                         *)
(***************************************************************************)

\* the outcomes of the windows handed to the extractor in this tick
Outcomes == {windows[i].outcome : i \in DOMAIN windows}

\* C1: the trail never holds more than LINE_LENGTH points, and its capacity
\* stays the one it was created with
C1_TrailBounded ==
    /\ Len(locations) <= LINE_LENGTH
    /\ locations_capacity = LINE_LENGTH

\* a full trail that has evicted, in a tick with an accepted and a rejected
\* window, after a reset
C1_Witness ==
    /\ Len(locations) = LINE_LENGTH
    /\ Len(appended) > LINE_LENGTH
    /\ {"accepted", "rejected"} \subseteq Outcomes
    /\ ui_event = UiReset

\* C2: once more than LINE_LENGTH points were appended since the last clear,
\* the trail is exactly the LINE_LENGTH most recent of them, in order
C2_Fifo ==
    Len(appended) > LINE_LENGTH =>
        locations = SubSeq(appended, Len(appended) - LINE_LENGTH + 1, Len(appended))

\* LINE_LENGTH + 2 points were appended
C2_Witness ==
    /\ Len(appended) = LINE_LENGTH + 2
    /\ Len(locations) = LINE_LENGTH

\* Idle: no pitch accepted since the start or the last reset
Idle == ~is_running /\ locations = <<>>

\* this step entered `if buf.len() == 1024` with a window
StepWindow == Len(windows') = Len(windows) + 1 /\ pc \in {"loop", "pop"}
\* ... and ran its body to the end
StepWindowDone == StepWindow /\ Last(windows').outcome # "panic"
StepAccepted == StepWindow /\ Last(windows').outcome = "accepted"
\* this step is the start of a frame in which the reset button was clicked
StepReset == pc = "idle" /\ pc' = "loop" /\ ui_event' = UiReset

\* C3: the program starts Idle, a reset makes it Idle, and an Idle program
\* stays Idle, its trail empty, over every step that accepts no pitch
C3_IdleUntilAccepted ==
    /\ Idle
    /\ [][StepReset => Idle']_vars
    /\ [][(Idle /\ ~StepAccepted) => Idle']_vars
    /\ [](~is_running => locations = <<>>)

\* after a reset of a running trail, a rejected window has left the trail empty
C3_Witness ==
    /\ ui_event = UiReset
    /\ Idle
    /\ current_note # "4"
    /\ windows # <<>>
    /\ Outcomes = {"rejected"}

\* C4: an accepted pitch makes the program Running; while Running every window
\* whose body ran to the end, accepted or rejected, appends exactly its point
\* (after evicting the oldest of a full trail); nothing else changes the trail
\* but a reset, and only a reset ends Running
C4_RunningAppends ==
    /\ [][StepAccepted => is_running']_vars
    /\ [][(StepWindowDone /\ is_running') =>
            locations' = Append(IF Len(locations) = LINE_LENGTH
                                THEN Tail(locations) ELSE locations, new_pos')]_vars
    /\ [][(locations' # locations) => (StepWindowDone \/ StepReset)]_vars
    /\ [][(is_running /\ ~is_running') => StepReset]_vars

\* a tick that started Idle: its first window was accepted, its second
\* rejected, and each appended a point
C4_Witness ==
    /\ Len(windows) = 2
    /\ windows[1].outcome = "accepted"
    /\ windows[2].outcome = "rejected"
    /\ Len(appended) = 2
    /\ locations = appended
    /\ is_running

\* C5: in every tick the extractor is entered once per SIZE samples drained,
\* each time with the next SIZE samples in the order they were drained; the
\* working window holds what was drained since, and never more than SIZE
C5_WindowExact ==
    /\ Len(windows) = Len(drained) \div SIZE
    /\ \A i \in DOMAIN windows :
            windows[i].samples = SubSeq(drained, (i - 1) * SIZE + 1, i * SIZE)
    /\ Len(buf) <= SIZE
    /\ (pc \in {"loop", "pop"} /\ ~crashed) =>
            /\ buf = SubSeq(drained, Len(windows) * SIZE + 1, Len(drained))
            /\ Len(buf) < SIZE

\* 2*SIZE - 1 samples drained in one tick: one window, SIZE - 1 samples waiting
C5_Witness ==
    /\ pc = "loop"
    /\ Len(drained) = 2 * SIZE - 1
    /\ Len(windows) = 1
    /\ Len(buf) = SIZE - 1

\* the samples of the windows handed to the extractor, in order
RECURSIVE WindowSamples(_)
WindowSamples(ws) ==
    IF ws = <<>> THEN <<>> ELSE Head(ws).samples \o WindowSamples(Tail(ws))

\* C6: when a tick has ended, every sample it drained from the relay is in
\* one of the windows it handed to the extractor
C6_NoSampleLost ==
    pc = "idle" => WindowSamples(windows) = drained

\* C7: the relay never holds more than RelayCapacity samples, and a push onto
\* a full relay returns without a panic and leaves the relay as it was
C7_RelayBounded ==
    /\ [](Len(relay) <= RelayCapacity)
    /\ [][(pushed' = pushed + 1 /\ Len(relay) = RelayCapacity) =>
            (relay' = relay /\ ~crashed')]_vars

\* the relay is full and still starts with the silence it was created with, so
\* nothing was popped yet, and more samples were pushed than it had room for;
\* the consumer is in the middle of a tick
C7_Witness ==
    /\ Len(relay) = RelayCapacity
    /\ \A i \in 1..latency_samples : relay[i] = F32(0)
    /\ pushed > RelayCapacity - latency_samples
    /\ pc = "pop"

\* C10: the camera's x is the 0 it started with
C10_CameraXPinned == camera_pos.x = 0

\* the camera has followed a trail whose newest point is off the centre line
C10_Witness ==
    /\ pc = "idle"
    /\ locations # <<>>
    /\ Last(locations).x # 0
    /\ camera_pos.z = Last(locations).z
    /\ camera_pos.z > 0

\* C11 as claimed: after a tick (one without a reset, to say the least) the
\* camera's y and z are those the trail's newest point had when the previous
\* tick ended
C11_OneTickBehind ==
    (pc = "idle" /\ prev_newest # <<>> /\ ui_event # UiReset) =>
        /\ camera_pos.y = prev_newest[1].y
        /\ camera_pos.z = prev_newest[1].z

\* C11, amended: after a tick that leaves a trail, the camera's y and z are
\* those of the trail's newest point at the end of that same tick
C11_CameraOnNewest ==
    (pc = "idle" /\ locations # <<>>) =>
        /\ camera_pos.y = Last(locations).y
        /\ camera_pos.z = Last(locations).z

\* a tick has moved the newest point on from where the previous tick left it
C11_Witness ==
    /\ pc = "idle"
    /\ locations # <<>>
    /\ prev_newest # <<>>
    /\ Last(locations).z > prev_newest[1].z
    /\ camera_pos.z = Last(locations).z

\* C13: each trail point is one depth step and one vertical step on from its
\* predecessor in the buffer, and the point of a rejected window has its
\* predecessor's x
C13_StepPerWindow ==
    /\ [](\A i \in 2..Len(locations) :
            /\ locations[i].z = DepthStep(locations[i - 1].z)
            /\ locations[i].y = HeightStep(locations[i - 1].y))
    /\ [][(StepWindow /\ Last(windows').outcome = "rejected" /\ is_running') =>
            /\ locations' # <<>>
            /\ Last(locations').x = Last(locations).x
            /\ Len(locations') >= 2 =>
                    Last(locations').x = locations'[Len(locations') - 1].x]_vars

\* a tick with one window, rejected, has appended a point to a full trail whose
\* newest point, off the centre line, was appended in the tick before
C13_Witness ==
    /\ pc = "idle"
    /\ Len(appended) > LINE_LENGTH
    /\ Outcomes = {"rejected"}
    /\ Len(windows) = 1
    /\ prev_newest # <<>>
    /\ prev_newest[1] = locations[Len(locations) - 1]
    /\ Last(locations).x # 0

\* C14: the first point recorded after `bookkept` windows since the start or
\* the last reset lies bookkept steps from the origin in depth and in height
C14_BookkeepingPersists ==
    Len(appended) = 1 =>
        /\ appended[1].z = 3 * bookkept
        /\ appended[1].y = -bookkept

\* C15: between ticks every trail point, seen from the camera, has a negative
\* z in to_screen_position and so a positive divisor, and none is ahead of the
\* camera in depth
C15_DivisorPositive ==
    (pc = "idle" /\ ~crashed) =>
        \A i \in DOMAIN locations :
            LET v == from_camera_view(locations[i], camera_pos) IN
            /\ v.z < 0
            /\ v.divisor > 0
            /\ locations[i].z <= camera_pos.z

\* a full trail between ticks: the camera is on the newest point, the oldest
\* is behind it
C15_Witness ==
    /\ pc = "idle"
    /\ Len(locations) = LINE_LENGTH
    /\ camera_pos.z = Last(locations).z
    /\ locations[1].z < camera_pos.z
    /\ from_camera_view(Last(locations), camera_pos).z = -DepthOffset

\* C17: no full window aborts the process, and every full window leaves the
\* largest absolute value of its samples in current_level
C17_EveryWindowProcessed ==
    /\ ~crashed
    /\ \A i \in DOMAIN windows : windows[i].outcome # "panic"
    /\ windows # <<>> =>
            \E j \in 1..SIZE :
                /\ ~Last(windows).samples[j].nan
                /\ current_level = Abs(Last(windows).samples[j].v)

\* this step is an iteration of the drain loop
StepPop == pc = "pop" /\ Len(drained') = Len(drained) + 1

\* C18: between the loop's test and its pop the relay of a live process is
\* never empty, and the pop takes the relay's oldest sample, never the 0.0 of
\* a failed pop
C18_PopNeverFails ==
    /\ []((pc = "pop" /\ ~crashed) => relay # <<>>)
    /\ [][StepPop =>
            /\ relay # <<>>
            /\ Last(drained') = Head(relay)
            /\ relay' = Tail(relay)]_vars

\* the consumer, in the middle of a tick, has popped a sample of the producer
\* and is about to pop the last one in the relay, one of the producer's too
C18_Witness ==
    /\ pc = "pop"
    /\ Len(relay) = 1
    /\ relay[1] \in Samples
    /\ drained # <<>>
    /\ Last(drained) \in Samples

\* C19: between ticks is_running says whether the trail has a point, and a
\* window that evicts from a full trail appends its own point
C19_RunningIffTrail ==
    /\ []((pc = "idle" /\ ~crashed) => (is_running <=> locations # <<>>))
    /\ [][(StepWindowDone /\ Len(locations) = locations_capacity) =>
            /\ Len(locations') = Len(locations)
            /\ Last(locations') = new_pos']_vars

\* a frame with a reset that emptied a full trail and then accepted a pitch:
\* Running again, with one point
C19_Witness ==
    /\ pc = "idle"
    /\ ui_event = UiReset
    /\ prev_newest # <<>>
    /\ is_running
    /\ Len(locations) = 1
    /\ locations = appended

(***************************************************************************)
(* Catching up: the capture callback goes on pushing for as long as the    *)
(* process lives, so the run has no bounded history and none is kept.  The *)
(* consumer is the thread of the event loop, which keeps running: a step   *)
(* of the drain loop that can be taken is taken.  Nothing is assumed of    *)
(* the producer, nor of the arrival of frames.                             *)
(***************************************************************************)
InitCatchUp ==
    /\ locations = <<>>
    /\ locations_capacity = LINE_LENGTH
    /\ camera_pos = ZERO
    /\ relay = [i \in 1..latency_samples |-> F32(0)]
    /\ current_note = "4"
    /\ current_level = 0
    /\ is_running = FALSE
    /\ key = "C"
    /\ should_calc_bounds_from_key = TRUE
    /\ midi_bounds = calc_freq_bounds("C").value
    /\ tuning_notes = RichterNotes
    /\ pc = "idle"
    /\ new_pos = ZERO
    /\ buf = <<>>
    /\ ui_event = UiNone
    /\ crashed = FALSE
    /\ pushed = 0
    /\ appended = <<>>
    /\ drained = <<>>
    /\ windows = <<>>
    /\ prev_newest = <<>>
    /\ bookkept = 0
    /\ call = NoCall
    /\ recording = FALSE

DrainStep == DrainTest \/ \E pitch \in PitchResults : DrainPop(pitch)

NextCatchUp ==
    \/ \E sample \in Samples : pass_in(sample)
    \/ \E e \in FrameEvents : UpdateBegin(e)
    \/ DrainStep

SpecCatchUp == InitCatchUp /\ [][NextCatchUp]_vars /\ WF_vars(DrainStep)

\* C12: a tick that has entered its drain loop comes to its end (or the
\* process is aborted), whatever the capture callback does meanwhile
C12_DrainLoopEnds == (pc \in {"loop", "pop"}) ~> (pc = "idle" \/ crashed)

(***************************************************************************)
(* The settings window: every frame reports one of its events (no change,  *)
(* the reset button, the checkbox, one of the 16 keys), and update goes on *)
(* to drain the relay, so that the note mapper runs with the settings the  *)
(* window left.  The capture callback is silent.                           *)
(***************************************************************************)
SettingsEvents == {UiNone, UiReset, UiCheckbox} \cup {UiKey(k) : k \in KeyNames}

NextSettings ==
    \/ \E e \in SettingsEvents : UpdateBegin(e)
    \/ DrainTest
    \/ \E pitch \in PitchResults : DrainPop(pitch)

SpecSettings == Init /\ [][NextSettings]_vars

\* C16: the MIDI bounds are those of the selected key, C4 and C7 moved by its
\* offset, while should_calc_bounds_from_key is set, and the default otherwise
C16_BoundsAgree ==
    midi_bounds =
        IF should_calc_bounds_from_key
        THEN MidiBounds(C4_MIDI + KeyOffsets[key], C7_MIDI + KeyOffsets[key])
        ELSE MidiBoundsDefault

\* the box was unchecked, another key selected, and the box checked again
C16_Witness ==
    /\ pc = "idle"
    /\ ui_event = UiCheckbox
    /\ should_calc_bounds_from_key
    /\ key = "LC"
    /\ midi_bounds = MidiBounds(48, 84)

\* C20: the selected key always has an offset, within -12..7; no lookup with
\* it panics; its bounds need no wrapping i8 addition, lie within 48..103 and
\* have low < high; and so do the bounds in force
C20_KeyAlwaysKnown ==
    /\ ~crashed
    /\ key \in KeyNames
    /\ ~get_harmonica_key_semitone_offset(key).panic
    /\ get_harmonica_key_semitone_offset(key).value \in -12..7
    /\ \A midi \in 0..255 : ~midi_to_tab(midi, key, tuning_notes).panic
    /\ ~calc_freq_bounds(key).panic
    /\ ~I8Overflows(C4_MIDI, get_harmonica_key_semitone_offset(key).value)
    /\ ~I8Overflows(C7_MIDI, get_harmonica_key_semitone_offset(key).value)
    /\ \A b \in {calc_freq_bounds(key).value, midi_bounds} :
            /\ DefaultLow <= b.low
            /\ b.low < b.high
            /\ b.high <= DefaultHigh

\* the highest key was selected and a pitch was mapped to a symbol in it
C20_Witness ==
    /\ pc = "idle"
    /\ key = "HG"
    /\ midi_bounds = MidiBounds(67, 103)
    /\ "accepted" \in Outcomes

(***************************************************************************)
(* The note mapper called directly: midi_to_tab and calc_freq_bounds are   *)
(* applied once to arguments drawn from every u8, every key name the       *)
(* program knows plus one it does not, and symbol tables up to MaxTable    *)
(* long.  The result lands where the program puts it (main.rs:162, 212).   *)
(***************************************************************************)
UnknownKey == "H"
Tables == {SubSeq(RichterNotes, 1, n) : n \in 0..MaxTable}

Calls ==
    {[fn |-> "midi_to_tab", midi |-> m, key |-> k, notes |-> t, done |-> FALSE] :
        m \in 0..255, k \in KeyNames \cup {UnknownKey}, t \in Tables}
    \cup
    {[fn |-> "calc_freq_bounds", midi |-> 0, key |-> k, notes |-> <<>>,
      done |-> FALSE] : k \in KeyNames \cup {UnknownKey}}

InitMapper ==
    /\ locations = <<>>
    /\ locations_capacity = LINE_LENGTH
    /\ camera_pos = ZERO
    /\ relay = [i \in 1..latency_samples |-> F32(0)]
    /\ current_note = "4"
    /\ current_level = 0
    /\ is_running = FALSE
    /\ key = "C"
    /\ should_calc_bounds_from_key = TRUE
    /\ midi_bounds = calc_freq_bounds("C").value
    /\ tuning_notes = RichterNotes
    /\ pc = "idle"
    /\ new_pos = ZERO
    /\ buf = <<>>
    /\ ui_event = UiNone
    /\ crashed = FALSE
    /\ pushed = 0
    /\ appended = <<>>
    /\ drained = <<>>
    /\ windows = <<>>
    /\ prev_newest = <<>>
    /\ bookkept = 0
    /\ call \in Calls
    /\ recording = TRUE

\* model.current_note = midi_to_tab(midi, key, notes)
CallMidiToTab ==
    /\ call.fn = "midi_to_tab"
    /\ ~call.done
    /\ ~crashed
    /\ LET r == midi_to_tab(call.midi, call.key, call.notes) IN
       /\ crashed' = r.panic
       /\ current_note' = IF r.panic THEN current_note ELSE r.value
    /\ call' = [call EXCEPT !.done = TRUE]
    /\ UNCHANGED <<locations, locations_capacity, camera_pos, relay,
                   current_level, is_running, key, should_calc_bounds_from_key,
                   midi_bounds, tuning_notes, pc, new_pos, buf, ui_event,
                   pushed, appended, drained, windows, prev_newest, bookkept,
                   recording>>

\* model.midi_bounds = calc_freq_bounds(key)
CallCalcFreqBounds ==
    /\ call.fn = "calc_freq_bounds"
    /\ ~call.done
    /\ ~crashed
    /\ LET r == calc_freq_bounds(call.key) IN
       /\ crashed' = r.panic
       /\ midi_bounds' = IF r.panic THEN midi_bounds ELSE r.value
    /\ call' = [call EXCEPT !.done = TRUE]
    /\ UNCHANGED <<locations, locations_capacity, camera_pos, relay,
                   current_note, current_level, is_running, key,
                   should_calc_bounds_from_key, tuning_notes, pc, new_pos, buf,
                   ui_event, pushed, appended, drained, windows, prev_newest,
                   bookkept, recording>>

NextMapper == CallMidiToTab \/ CallCalcFreqBounds

SpecMapper == InitMapper /\ [][NextMapper]_vars

\* C8: a lookup with a key name the program does not know does not end the
\* process and leaves key, MIDI bounds and current symbol as they were
C8_UnknownKeyReported ==
    (call.done /\ call.key \notin KeyNames) =>
        /\ ~crashed
        /\ key = "C"
        /\ midi_bounds = MidiBounds(C4_MIDI, C7_MIDI)
        /\ current_note = "4"

\* C9: for a known key midi_to_tab returns the entry at index
\* midi - 60 - offset when that is within 0..len-1 and the empty symbol
\* otherwise, and never indexes outside the table
C9_MidiToTab ==
    (call.done /\ call.fn = "midi_to_tab" /\ call.key \in KeyNames) =>
        LET index == call.midi - 60 - KeyOffsets[call.key] IN
        /\ ~crashed
        /\ current_note = IF 0 <= index /\ index <= Len(call.notes) - 1
                          THEN call.notes[index + 1] ELSE ""

\* the call at the upper boundary, index = len, of a table that is not empty,
\* in a key with an offset
C9_Witness ==
    /\ call.done
    /\ call.fn = "midi_to_tab"
    /\ call.key = "LC"
    /\ call.notes # <<>>
    /\ call.midi - 60 - KeyOffsets[call.key] = Len(call.notes)
    /\ current_note = ""

====
